---- MODULE Spec2Model ----
(***************************************************************************)
(* Model of compress_img (src/src/main.rs): a Slint window whose           *)
(* start_compress callback spawns one worker thread per accepted run; the  *)
(* worker walks the selected folder, re-encodes every JPEG/PNG in place    *)
(* and posts UI updates to the event loop with invoke_from_event_loop.     *)
(*                                                                         *)
(* Threads: the UI thread (callbacks and the posted closures, applied in   *)
(* posting order) and the worker threads, one per accepted run.            *)
(***************************************************************************)
EXTENDS Integers, Sequences, FiniteSets, TLC

\* ------------------------------------------------------------------ bounds

\* Number of worker threads that may be alive at once.  A thread that has
\* ended frees its place; start_compress takes the places in turn.
MaxThreads == 2

\* Number of failures of the environment (I/O errors, encoder errors) in
\* one behaviour; failures decided by a file's content are not counted.
MaxFaults == 1

Threads == 1..MaxThreads

\* ------------------------------------------------------------- text values

\* Every piece of text the program builds (status lines, log lines, the
\* newline) is a value of this shape; the fields hold what format! puts in.
Text(kind, path, reason, n, m, x) ==
    [kind |-> kind, path |-> path, reason |-> reason, n |-> n, m |-> m, x |-> x]

Empty == Text("", "", "", 0, 0, 0)
NL == Text("\n", "", "", 0, 0, 0)

\* A text field (SharedString / String) is the sequence of the pieces
\* pushed onto it; "" is the empty sequence.
EmptyString == << >>

\* --------------------------------------------------------- number formats

Abs(i) == IF i < 0 THEN -i ELSE i

\* num/den (num >= 0, den > 0) rounded to the nearest integer, ties to even:
\* the rounding of {:.2} applied to a value scaled by 100.
RoundHalfEven(num, den) ==
    LET q == num \div den
        r == num % den
    IN  IF 2 * r < den THEN q
        ELSE IF 2 * r > den THEN q + 1
        ELSE IF q % 2 = 0 THEN q ELSE q + 1

\* bytes_to_kb formatted with {:.2}: hundredths of a KB.
bytes_to_kb(bytes) == RoundHalfEven(bytes * 100, 1024)

\* bytes_to_mb formatted with {:.2}: hundredths of a MB.
bytes_to_mb(bytes) == RoundHalfEven(bytes * 100, 1024 * 1024)

\* savings_percent formatted with {:.2}: hundredths of a percent, signed.
savings_percent(before, after) ==
    IF before = 0 THEN 0
    ELSE LET d    == Abs(before - after)
             whole == (100 * d) \div before
             rest  == (100 * d) % before
             h     == whole * 100 + RoundHalfEven(rest * 100, before)
         IN  IF before >= after THEN h ELSE -h

\* u64::saturating_sub
saturating_sub(a, b) == IF a >= b THEN a - b ELSE 0

RECURSIVE Gcd(_, _)
Gcd(a, b) == IF b = 0 THEN a ELSE Gcd(b, a % b)

\* An f32 in [0, 1] obtained as processed / total, kept as a reduced
\* fraction (equal quotients are equal values).
Fraction(n, d) == [num |-> n \div Gcd(n, d), den |-> d \div Gcd(n, d)]
Zero == Fraction(0, 1)
One == Fraction(1, 1)
FracLeq(a, b) == a.num * b.den <= b.num * a.den

\* ------------------------------------------------------------- file names

Upper == <<"A","B","C","D","E","F","G","H","I","J","K","L","M",
           "N","O","P","Q","R","S","T","U","V","W","X","Y","Z">>
Lower == <<"a","b","c","d","e","f","g","h","i","j","k","l","m",
           "n","o","p","q","r","s","t","u","v","w","x","y","z">>

\* u8::to_ascii_lowercase on one character.
CharToAsciiLowercase(c) ==
    IF \E i \in 1..26 : Upper[i] = c
    THEN Lower[CHOOSE i \in 1..26 : Upper[i] = c]
    ELSE c

\* str::to_ascii_lowercase
to_ascii_lowercase(s) == [i \in 1..Len(s) |-> CharToAsciiLowercase(s[i])]

\* Path::extension on a file name given as its characters: the part after
\* the last '.', none when there is no '.' or the only '.' leads the name.
NoExtension == <<"<none>">>
extension(name) ==
    LET dots == {i \in 1..Len(name) : name[i] = "."}
    IN  IF dots = {} THEN NoExtension
        ELSE LET dot == CHOOSE i \in dots : \A j \in dots : j <= i
             IN  IF dot = 1 THEN NoExtension
                 ELSE SubSeq(name, dot + 1, Len(name))

\* Mutant: the extension is compared as written, without lowercasing.
is_supported_image_case_sensitive(name) ==
    /\ extension(name) # NoExtension
    /\ extension(name) \in
           { <<"j","p","g">>, <<"j","p","e","g">>, <<"p","n","g">> }

is_supported_image(name) ==
    /\ extension(name) # NoExtension
    /\ to_ascii_lowercase(extension(name)) \in
           { <<"j","p","g">>, <<"j","p","e","g">>, <<"p","n","g">> }

\* ------------------------------------------------------------ file system

\* The directory tree the program is run on, in the order a walk meets the
\* entries of one directory.  "gone" is a path that does not exist.
Entry(path, parent, name, type) ==
    [path |-> path, parent |-> parent, name |-> name, type |-> type]

Entries ==
    << Entry("photos", "", <<"p","h","o","t","o","s">>, "dir"),
       Entry("photos/a.JPG", "photos", <<"a",".","J","P","G">>, "file"),
       Entry("photos/notes.txt", "photos",
             <<"n","o","t","e","s",".","t","x","t">>, "file"),
       Entry("photos/link.jpg", "photos",
             <<"l","i","n","k",".","j","p","g">>, "symlink"),
       Entry("photos/old.png", "photos", <<"o","l","d",".","p","n","g">>, "dir"),
       Entry("photos/old.png/d.gif", "photos/old.png",
             <<"d",".","g","i","f">>, "file"),
       Entry("photos/raw", "photos", <<"r","a","w">>, "dir"),
       Entry("photos/raw/b.png", "photos/raw", <<"b",".","p","n","g">>, "file"),
       Entry("photos/raw/README", "photos/raw",
             <<"R","E","A","D","M","E">>, "file"),
       Entry("photos/raw/x", "photos/raw", <<"x">>, "dir"),
       Entry("photos/raw/x/c.Jpeg", "photos/raw/x",
             <<"c",".","J","p","e","g">>, "file"),
       Entry("docs", "", <<"d","o","c","s">>, "dir"),
       Entry("docs/readme.md", "docs",
             <<"r","e","a","d","m","e",".","m","d">>, "file"),
       Entry("shot.png", "", <<"s","h","o","t",".","p","n","g">>, "file") >>

EntryIndex == 1..Len(Entries)
Paths == {Entries[i].path : i \in EntryIndex}
EntryOf(path) == Entries[CHOOSE i \in EntryIndex : Entries[i].path = path]
FilePaths == {p \in Paths : EntryOf(p).type = "file"}
DirPaths == {p \in Paths : EntryOf(p).type = "dir"}

\* What the folder picker can hand back (the path is looked at again only
\* when the worker starts, so it need not be a directory by then).
Folders == {"photos", "docs", "shot.png", "gone"}

\* Path::exists / Path::is_dir
exists(path) == path \in Paths
is_dir(path) == path \in DirPaths

\* The bytes of a file: the format its content announces, whether the
\* decoder accepts it, and its length.
Content(fmt, valid, size) == [fmt |-> fmt, valid |-> valid, size |-> size]

InitialContent ==
    [p \in FilePaths |->
        CASE p = "photos/a.JPG"        -> Content("Jpeg", TRUE, 1000000)
          [] p = "photos/raw/b.png"    -> Content("Png", TRUE, 1000000)
          [] p = "photos/raw/x/c.Jpeg" -> Content("Gif", TRUE, 2048)
          [] p = "photos/old.png/d.gif" -> Content("Gif", TRUE, 512)
          [] p = "shot.png"            -> Content("Png", TRUE, 4096)
          [] OTHER                     -> Content("None", FALSE, 100)]

\* What a walk may find unlistable (permission denied): nothing, a
\* subdirectory, or the root itself.
DeniedChoices == { {}, {"photos/raw"}, {"docs"} }

\* ------------------------------------------------------------------- walk

WalkOk(path) == [ok |-> TRUE, path |-> path]
WalkErr(path) == [ok |-> FALSE, path |-> path]

ChildrenOf(dir) ==
    LET kids == SelectSeq(Entries, LAMBDA e : e.parent = dir)
    IN  [i \in 1..Len(kids) |-> kids[i].path]

\* WalkDir::new(root).into_iter(): the root, then depth first; a directory
\* that cannot be listed yields itself and then one error.  Links are not
\* followed.
RECURSIVE WalkDir(_, _)
RECURSIVE WalkEach(_, _)
WalkDir(path, denied) ==
    <<WalkOk(path)>> \o
    (IF ~is_dir(path) THEN << >>
     ELSE IF path \in denied THEN <<WalkErr(path)>>
     ELSE WalkEach(ChildrenOf(path), denied))
WalkEach(paths, denied) ==
    IF paths = << >> THEN << >>
    ELSE WalkDir(Head(paths), denied) \o WalkEach(Tail(paths), denied)

\* The test of one walked entry.
Qualifies(item) ==
    /\ EntryOf(item.path).type = "file"
    /\ is_supported_image(EntryOf(item.path).name)

\* The loop over the walk: the list of files, in walk order.
ScanFiles(items) ==
    LET kept == SelectSeq(items, LAMBDA it : it.ok /\ Qualifies(it))
    IN  [i \in 1..Len(kept) |-> kept[i].path]

\* The loop over the walk: one warning line per failed entry.
RECURSIVE ScanLog(_)
ScanLog(items) ==
    IF items = << >> THEN EmptyString
    ELSE (IF Head(items).ok THEN EmptyString
          ELSE <<Text("walk_error", Head(items).path, "", 0, 0, 0), NL>>)
         \o ScanLog(Tail(items))

\* ------------------------------------------------------------ compressor

\* Length of the re-encoded image: the JPEG encoder shrinks these images,
\* the PNG encoder (RGBA8, whatever the source) grows them.
EncodedSize(fmt, quality) == IF fmt = "Jpeg" THEN 600000 ELSE 1200000

\* Length left behind by a write that failed part-way.
PartialSize == 4096

\* What the file may hold after fs::write failed: untouched (the open
\* failed), emptied (truncated, nothing written), or a prefix of the new
\* bytes (the header still announces the format; the decoder rejects it).
AfterFailedWrite(c) ==
    {c, Content("None", FALSE, 0), Content(c.fmt, FALSE, PartialSize)}

\* Failures that do not follow from the content of the file.
EnvironmentFailures == {"open", "guess", "encode", "metadata", "write"}

Failure(reason, c) ==
    [ok |-> FALSE, reason |-> reason, original_size |-> 0, new_size |-> 0,
     content |-> c]
Success(original_size, new_size, c) ==
    [ok |-> TRUE, reason |-> "", original_size |-> original_size,
     new_size |-> new_size, content |-> c]

\* The write-back: metadata, fs::write, the returned stats.
WriteBack(c, n) ==
    {Failure("metadata", c)}
    \cup {Failure("write", c2) : c2 \in AfterFailedWrite(c)}
    \cup {Success(c.size, n, Content(c.fmt, TRUE, n))}

\* Mutant: the file is opened for writing (and so emptied) before the
\* format is dispatched on.
compress_image_write_first(c, quality) ==
    {Failure("open", c), Failure("guess", c)}
    \cup
    (IF c.fmt = "None" THEN {Failure("no_format", c)}
     ELSE IF ~c.valid THEN {Failure("decode", c)}
     ELSE IF c.fmt \notin {"Jpeg", "Png"}
          THEN {Failure("unsupported", Content("None", FALSE, 0))}
     ELSE {Failure("encode", Content("None", FALSE, 0))}
          \cup WriteBack(c, EncodedSize(c.fmt, quality)))

\* compress_image on a file holding c: every outcome it can have, each with
\* the content the file holds afterwards.
compress_image(c, quality) ==
    {Failure("open", c), Failure("guess", c)}
    \cup
    (IF c.fmt = "None" THEN {Failure("no_format", c)}
     ELSE IF ~c.valid THEN {Failure("decode", c)}
     ELSE IF c.fmt \notin {"Jpeg", "Png"} THEN {Failure("unsupported", c)}
     ELSE {Failure("encode", c)}
          \cup WriteBack(c, EncodedSize(c.fmt, quality)))

\* ------------------------------------------------------------------ state

VARIABLES
    window_open,      \* the AppWindow is alive (ui_weak.upgrade() succeeds)
    selected_folder,  \* UI property selected-folder
    busy,             \* UI property busy
    status_text,      \* UI property status-text
    log_text,         \* UI property log-text
    processed_files,  \* UI property processed-files
    total_files,      \* UI property total-files
    progress,         \* UI property progress
    events,           \* closures posted with invoke_from_event_loop, in order
    last,             \* the place of the thread spawned last
    worker,           \* per place: the thread's position and its locals
    fs,               \* content of every regular file
    faults            \* I/O and encoder failures met so far

ui == <<busy, status_text, log_text, processed_files, total_files, progress>>
vars == <<window_open, selected_folder, busy, status_text, log_text,
          processed_files, total_files, progress, events, last, worker,
          fs, faults>>

NoResult == Failure("", Content("", FALSE, 0))

\* A place with no thread in it (none spawned yet, or the thread ended).
Idle ==
    [pc |-> "idle", folder |-> "", quality |-> 0, error |-> "", files |-> << >>,
     log_builder |-> EmptyString, index |-> 0, total_saved |-> 0,
     result |-> NoResult, results |-> << >>]

\* A closure handed to invoke_from_event_loop: which closure it is, the
\* values it captured, and the thread that posted it.
Closure(run, kind, total, processed, prog, log, status) ==
    [run |-> run, kind |-> kind, total |-> total, processed |-> processed,
     progress |-> prog, log |-> log, status |-> status]

\* invoke_from_event_loop: the closure is queued; once the window is gone
\* nothing runs it.
Post(c) == IF window_open THEN Append(events, c) ELSE events

\* Values ui.get_jpeg_quality() may return, in tenths (the slider at its
\* lower stop).
QualityInputs == {-5, 4}

\* f32::round (half away from zero) of a value given in tenths.
Round(tenths) ==
    IF tenths >= 0 THEN (tenths + 5) \div 10 ELSE -((5 - tenths) \div 10)

Clamp(v, lo, hi) == IF v < lo THEN lo ELSE IF v > hi THEN hi ELSE v

Init ==
    /\ window_open = TRUE
    /\ selected_folder = ""
    /\ busy = FALSE
    /\ status_text = Empty
    /\ log_text = EmptyString
    /\ processed_files = 0
    /\ total_files = 0
    /\ progress = Zero
    /\ events = << >>
    /\ last = MaxThreads
    /\ worker = [r \in Threads |-> Idle]
    /\ fs = InitialContent
    /\ faults = 0

\* ----------------------------------------------------- UI thread: callbacks

\* on_pick_folder, the dialog returning Some(selected).
PickFolder(selected) ==
    /\ window_open
    /\ selected_folder' = selected
    /\ status_text' = Text("selected", selected, "", 0, 0, 0)
    /\ UNCHANGED <<window_open, busy, log_text, processed_files, total_files,
                   progress, events, last, worker, fs, faults>>

\* The place thread::spawn puts the next thread in.
NextPlace == (last % MaxThreads) + 1

\* Mutant: on_start_compress without the test of the busy flag.
StartCompressUnguarded(jpeg_quality) ==
    /\ window_open
    /\ IF selected_folder = "" THEN
            /\ status_text' = Text("choose_folder_first", "", "", 0, 0, 0)
            /\ UNCHANGED <<window_open, selected_folder, busy, log_text,
                           processed_files, total_files, progress, events,
                           last, worker, fs, faults>>
       ELSE /\ worker[NextPlace].pc = "idle"
            /\ busy' = TRUE
            /\ status_text' = Text("scanning", "", "", 0, 0, 0)
            /\ log_text' = EmptyString
            /\ processed_files' = 0
            /\ total_files' = 0
            /\ progress' = Zero
            /\ last' = NextPlace
            /\ worker' = [worker EXCEPT ![NextPlace] =
                             [Idle EXCEPT
                                 !.pc = "process_folder",
                                 !.folder = selected_folder,
                                 !.quality = Clamp(Round(jpeg_quality), 1, 100)]]
            /\ UNCHANGED <<window_open, selected_folder, events, fs, faults>>

\* on_start_compress; jpeg_quality is the slider's value.
StartCompress(jpeg_quality) ==
    /\ window_open
    /\ IF busy THEN UNCHANGED vars
       ELSE IF selected_folder = "" THEN
            /\ status_text' = Text("choose_folder_first", "", "", 0, 0, 0)
            /\ UNCHANGED <<window_open, selected_folder, busy, log_text,
                           processed_files, total_files, progress, events,
                           last, worker, fs, faults>>
       ELSE /\ worker[NextPlace].pc = "idle"
            /\ busy' = TRUE
            /\ status_text' = Text("scanning", "", "", 0, 0, 0)
            /\ log_text' = EmptyString
            /\ processed_files' = 0
            /\ total_files' = 0
            /\ progress' = Zero
            /\ last' = NextPlace
            /\ worker' = [worker EXCEPT ![NextPlace] =
                             [Idle EXCEPT
                                 !.pc = "process_folder",
                                 !.folder = selected_folder,
                                 !.quality = Clamp(Round(jpeg_quality), 1, 100)]]
            /\ UNCHANGED <<window_open, selected_folder, events, fs, faults>>

\* The window is closed: run() returns, main drops the AppWindow with its
\* properties, and the queued closures are never run.
CloseWindow ==
    /\ window_open
    /\ window_open' = FALSE
    /\ events' = << >>
    /\ selected_folder' = ""
    /\ busy' = FALSE
    /\ status_text' = Empty
    /\ log_text' = EmptyString
    /\ processed_files' = 0
    /\ total_files' = 0
    /\ progress' = Zero
    /\ UNCHANGED <<last, worker, fs, faults>>

\* ---------------------------------------------------------- worker thread

SetWorker(r, w) == worker' = [worker EXCEPT ![r] = w]

\* Mutant: process_folder without the is_dir test.
CheckFolderNoDirTest(r) ==
    LET w == worker[r] IN
    /\ w.pc = "process_folder"
    /\ IF ~exists(w.folder)
       THEN SetWorker(r, [w EXCEPT !.pc = "failed", !.error = "not_exists"])
       ELSE SetWorker(r, [w EXCEPT !.pc = "scan"])
    /\ UNCHANGED <<window_open, selected_folder, busy, status_text, log_text,
                   processed_files, total_files, progress, events, last,
                   fs, faults>>

\* process_folder, the checks of the root path.
CheckFolder(r) ==
    LET w == worker[r] IN
    /\ w.pc = "process_folder"
    /\ IF ~exists(w.folder)
       THEN SetWorker(r, [w EXCEPT !.pc = "failed", !.error = "not_exists"])
       ELSE IF ~is_dir(w.folder)
       THEN SetWorker(r, [w EXCEPT !.pc = "failed", !.error = "not_a_folder"])
       ELSE SetWorker(r, [w EXCEPT !.pc = "scan"])
    /\ UNCHANGED <<window_open, selected_folder, busy, status_text, log_text,
                   processed_files, total_files, progress, events, last,
                   fs, faults>>

\* The thread's closure when process_folder returned Err: the message is
\* posted, and the thread ends.
ReportFailure(r) ==
    LET w == worker[r]
        message == Text("failed", w.folder, w.error, 0, 0, 0)
    IN
    /\ w.pc = "failed"
    /\ events' = Post(Closure(r, "failure", 0, 0, Zero, EmptyString, message))
    /\ SetWorker(r, Idle)
    /\ UNCHANGED <<window_open, selected_folder, busy, status_text, log_text,
                   processed_files, total_files, progress, last, fs, faults>>

\* The walk of the folder: the file list and the warnings.
Scan(r) ==
    LET w == worker[r] IN
    /\ w.pc = "scan"
    /\ \E denied \in DeniedChoices :
          LET items == WalkDir(w.folder, denied) IN
          SetWorker(r, [w EXCEPT !.pc = "report_total",
                                 !.files = ScanFiles(items),
                                 !.log_builder = ScanLog(items)])
    /\ UNCHANGED <<window_open, selected_folder, busy, status_text, log_text,
                   processed_files, total_files, progress, events, last,
                   fs, faults>>

\* Mutant: with no file, busy is released before the total is posted.
ReportTotalReleasesFirst(r) ==
    LET w == worker[r]
        total == Len(w.files)
        status == IF total > 0 THEN Text("found", "", "", total, 0, 0)
                  ELSE Text("none_found", "", "", 0, 0, 0)
        report == Closure(r, "total", total, 0, Zero, w.log_builder, status)
        release == Closure(r, "release", 0, 0, Zero, EmptyString, Empty)
    IN
    /\ w.pc = "report_total"
    /\ events' = IF ~window_open THEN events
                 ELSE IF total = 0 THEN events \o <<release, report>>
                 ELSE Append(events, report)
    /\ SetWorker(r, IF total = 0 THEN Idle ELSE [w EXCEPT !.pc = "compress"])
    /\ UNCHANGED <<window_open, selected_folder, busy, status_text, log_text,
                   processed_files, total_files, progress, last, fs, faults>>

\* The total is posted; with no file the next stop is the early return.
ReportTotal(r) ==
    LET w == worker[r]
        total == Len(w.files)
        status == IF total > 0 THEN Text("found", "", "", total, 0, 0)
                  ELSE Text("none_found", "", "", 0, 0, 0)
    IN
    /\ w.pc = "report_total"
    /\ events' = Post(Closure(r, "total", total, 0, Zero, w.log_builder, status))
    /\ SetWorker(r, [w EXCEPT !.pc = IF total = 0 THEN "no_files"
                                     ELSE "compress"])
    /\ UNCHANGED <<window_open, selected_folder, busy, status_text, log_text,
                   processed_files, total_files, progress, last, fs, faults>>

\* Mutant: the early return without the closure that clears busy.
ReturnEmptyKeepsBusy(r) ==
    /\ worker[r].pc = "no_files"
    /\ SetWorker(r, Idle)
    /\ UNCHANGED <<window_open, selected_folder, busy, status_text, log_text,
                   processed_files, total_files, progress, events, last,
                   fs, faults>>

\* total == 0: the busy flag is released and process_folder returns Ok.
ReturnEmpty(r) ==
    LET w == worker[r] IN
    /\ w.pc = "no_files"
    /\ events' = Post(Closure(r, "release", 0, 0, Zero, EmptyString, Empty))
    /\ SetWorker(r, Idle)
    /\ UNCHANGED <<window_open, selected_folder, busy, status_text, log_text,
                   processed_files, total_files, progress, last, fs, faults>>

\* The call compress_image(path, quality) for files[index].
Compress(r) ==
    LET w == worker[r]
        path == w.files[w.index + 1]
    IN
    /\ w.pc = "compress"
    /\ \E out \in compress_image(fs[path], w.quality) :
          /\ IF out.reason \in EnvironmentFailures
             THEN faults < MaxFaults /\ faults' = faults + 1
             ELSE faults' = faults
          /\ fs' = [fs EXCEPT ![path] = out.content]
          /\ SetWorker(r, [w EXCEPT !.pc = "record", !.result = out])
    /\ UNCHANGED <<window_open, selected_folder, busy, status_text, log_text,
                   processed_files, total_files, progress, events, last>>

\* The contribution of one Ok(stats) to total_saved.
Saved(stats) == saturating_sub(stats.original_size, stats.new_size)

\* The log line of one result.
LogLine(path, res) ==
    IF res.ok
    THEN Text("ok", path, "", bytes_to_kb(res.original_size),
              bytes_to_kb(res.new_size),
              savings_percent(res.original_size, res.new_size))
    ELSE Text("fail", path, res.reason, 0, 0, 0)

\* Mutant: a failed file ends the loop.
RecordStopsOnFailure(r) ==
    LET w == worker[r]
        total == Len(w.files)
        path == w.files[w.index + 1]
        processed == w.index + 1
        log == w.log_builder \o <<LogLine(path, w.result), NL>>
        status == Text("processing", path, "", processed, total, 0)
    IN
    /\ w.pc = "record"
    /\ events' = Post(Closure(r, "file", total, processed,
                              Fraction(processed, total), log, status))
    /\ SetWorker(r, [w EXCEPT
          !.pc = IF processed = total \/ ~w.result.ok THEN "finish"
                 ELSE "compress",
          !.index = processed,
          !.log_builder = log,
          !.total_saved = IF w.result.ok THEN @ + Saved(w.result) ELSE @,
          !.results = Append(@, [w.result EXCEPT !.content = NoResult.content]),
          !.result = NoResult])
    /\ UNCHANGED <<window_open, selected_folder, busy, status_text, log_text,
                   processed_files, total_files, progress, last, fs, faults>>

\* Mutant: the update reports the index of the file, not index + 1.
RecordReportsIndex(r) ==
    LET w == worker[r]
        total == Len(w.files)
        path == w.files[w.index + 1]
        processed == w.index + 1
        log == w.log_builder \o <<LogLine(path, w.result), NL>>
        status == Text("processing", path, "", processed, total, 0)
    IN
    /\ w.pc = "record"
    /\ events' = Post(Closure(r, "file", total, w.index,
                              Fraction(w.index, total), log, status))
    /\ SetWorker(r, [w EXCEPT
          !.pc = IF processed = total THEN "finish" ELSE "compress",
          !.index = processed,
          !.log_builder = log,
          !.total_saved = IF w.result.ok THEN @ + Saved(w.result) ELSE @,
          !.results = Append(@, [w.result EXCEPT !.content = NoResult.content]),
          !.result = NoResult])
    /\ UNCHANGED <<window_open, selected_folder, busy, status_text, log_text,
                   processed_files, total_files, progress, last, fs, faults>>

\* The rest of the loop body: the match on the result, then the update.
Record(r) ==
    LET w == worker[r]
        total == Len(w.files)
        path == w.files[w.index + 1]
        processed == w.index + 1
        log == w.log_builder \o <<LogLine(path, w.result), NL>>
        status == Text("processing", path, "", processed, total, 0)
    IN
    /\ w.pc = "record"
    /\ events' = Post(Closure(r, "file", total, processed,
                              Fraction(processed, total), log, status))
    /\ SetWorker(r, [w EXCEPT
          !.pc = IF processed = total THEN "finish" ELSE "compress",
          !.index = processed,
          !.log_builder = log,
          !.total_saved = IF w.result.ok THEN @ + Saved(w.result) ELSE @,
          !.results = Append(@, [w.result EXCEPT !.content = NoResult.content]),
          !.result = NoResult])
    /\ UNCHANGED <<window_open, selected_folder, busy, status_text, log_text,
                   processed_files, total_files, progress, last, fs, faults>>

\* The final status line.
FinalStatus(total, total_saved) ==
    IF total_saved >= 0
    THEN Text("done_saved", "", "", total, 0, bytes_to_mb(total_saved))
    ELSE Text("done_increased", "", "", total, 0, bytes_to_mb(-total_saved))

\* After the loop: the final status is built and posted, process_folder
\* returns Ok(()) and the thread ends.
Finish(r) ==
    LET w == worker[r]
        final_status == FinalStatus(Len(w.files), w.total_saved)
    IN
    /\ w.pc = "finish"
    /\ events' = Post(Closure(r, "final", Len(w.files), w.index, One,
                              w.log_builder, final_status))
    /\ SetWorker(r, Idle)
    /\ UNCHANGED <<window_open, selected_folder, busy, status_text, log_text,
                   processed_files, total_files, progress, last, fs, faults>>

\* ------------------------------------------- UI thread: posted closures

Runnable(kind) ==
    /\ window_open
    /\ events # << >>
    /\ Head(events).kind = kind

\* The closure of the thread's error path.
ApplyFailure ==
    LET c == Head(events)
        log == (IF log_text # EmptyString THEN Append(log_text, NL)
                ELSE log_text) \o <<c.status>>
    IN
    /\ Runnable("failure")
    /\ busy' = FALSE
    /\ status_text' = c.status
    /\ log_text' = log
    /\ events' = Tail(events)
    /\ UNCHANGED <<window_open, selected_folder, processed_files, total_files,
                   progress, last, worker, fs, faults>>

\* The closure posted after the scan.
ApplyTotal ==
    LET c == Head(events) IN
    /\ Runnable("total")
    /\ total_files' = c.total
    /\ processed_files' = 0
    /\ progress' = Zero
    /\ log_text' = c.log
    /\ status_text' = c.status
    /\ events' = Tail(events)
    /\ UNCHANGED <<window_open, selected_folder, busy, last, worker, fs,
                   faults>>

\* The closure posted when no file was found.
ApplyRelease ==
    /\ Runnable("release")
    /\ busy' = FALSE
    /\ events' = Tail(events)
    /\ UNCHANGED <<window_open, selected_folder, status_text, log_text,
                   processed_files, total_files, progress, last, worker,
                   fs, faults>>

\* The closure posted after each file.
ApplyFile ==
    LET c == Head(events) IN
    /\ Runnable("file")
    /\ processed_files' = c.processed
    /\ progress' = c.progress
    /\ log_text' = c.log
    /\ status_text' = c.status
    /\ events' = Tail(events)
    /\ UNCHANGED <<window_open, selected_folder, busy, total_files, last,
                   worker, fs, faults>>

\* Mutant: the final closure without set_busy(false).
ApplyFinalKeepsBusy ==
    LET c == Head(events) IN
    /\ Runnable("final")
    /\ status_text' = c.status
    /\ log_text' = c.log
    /\ progress' = One
    /\ events' = Tail(events)
    /\ UNCHANGED <<window_open, selected_folder, busy, processed_files,
                   total_files, last, worker, fs, faults>>

\* The closure posted at the end of the run.
ApplyFinal ==
    LET c == Head(events) IN
    /\ Runnable("final")
    /\ status_text' = c.status
    /\ log_text' = c.log
    /\ progress' = One
    /\ busy' = FALSE
    /\ events' = Tail(events)
    /\ UNCHANGED <<window_open, selected_folder, processed_files, total_files,
                   last, worker, fs, faults>>

\* ---------------------------------------------------------- specification

WorkerStep(r) ==
    \/ CheckFolder(r)
    \/ ReportFailure(r)
    \/ Scan(r)
    \/ ReportTotal(r)
    \/ ReturnEmpty(r)
    \/ Compress(r)
    \/ Record(r)
    \/ Finish(r)

EventLoop ==
    \/ ApplyFailure
    \/ ApplyTotal
    \/ ApplyRelease
    \/ ApplyFile
    \/ ApplyFinal

Next ==
    \/ \E selected \in Folders : PickFolder(selected)
    \/ \E jpeg_quality \in QualityInputs : StartCompress(jpeg_quality)
    \/ CloseWindow
    \/ EventLoop
    \/ \E r \in Threads : WorkerStep(r)

Spec == Init /\ [][Next]_vars

\* The event loop runs every posted closure while the window is open, and
\* the operating system schedules every running thread.
FairSpec ==
    /\ Spec
    /\ WF_vars(EventLoop)
    /\ \A r \in Threads : WF_vars(WorkerStep(r))

\* ================================================================= claims

Last(seq) == seq[Len(seq)]

\* Closures that clear the busy flag.
Releasing == {"failure", "release", "final"}

\* A run is active from the moment start_compress set busy until the
\* closure that clears busy has run: its thread is alive, or its releasing
\* closure is still queued.
Active(r) ==
    \/ worker[r].pc # "idle"
    \/ \E i \in 1..Len(events) :
          events[i].run = r /\ events[i].kind \in Releasing

\* The step is on_pick_folder: of the UI fields only the status changes, to
\* the message naming the selected folder.
IsPickStep ==
    /\ status_text' = Text("selected", selected_folder', "", 0, 0, 0)
    /\ <<busy, log_text, processed_files, total_files, progress>>' =
       <<busy, log_text, processed_files, total_files, progress>>

\* The step runs the closure at the head of the queue.
IsApplyStep == events # << >> /\ events' = Tail(events)

\* ---- C1

C1_AtMostOneActive == Cardinality({r \in Threads : Active(r)}) <= 1

C1_BusyRejects ==
    (busy /\ window_open') =>
        /\ last' = last
        /\ \A r \in Threads : worker[r].pc = "idle" => worker'[r].pc = "idle"
        /\ ui' = ui \/ IsApplyStep \/ IsPickStep

\* C1: while busy is true no worker is spawned and no UI field changes
\* other than by a posted closure or by pick_folder (so start_compress
\* changes nothing); in every state at most one run is active.
C1_BusyGuard == [](C1_AtMostOneActive) /\ [][C1_BusyRejects]_vars

\* C1 witness: a run is at work and the window is open, so start_compress
\* can fire while busy.
C1_Witness ==
    /\ window_open /\ busy
    /\ \E r \in Threads : worker[r].pc = "record" /\ worker[r].index = 1
    /\ selected_folder # ""

\* ---- C2

RECURSIVE NetSaved(_)
\* The sum of original size - new size over the successful results.
NetSaved(results) ==
    IF results = << >> THEN 0
    ELSE (IF Head(results).ok
          THEN Head(results).original_size - Head(results).new_size
          ELSE 0) + NetSaved(Tail(results))

\* The final status the claim describes.
C2_ExpectedStatus(total, net) ==
    IF net < 0 THEN Text("done_increased", "", "", total, 0, bytes_to_mb(-net))
    ELSE Text("done_saved", "", "", total, 0, bytes_to_mb(net))

\* C2 (as claimed): the final status posted at the end of a run carries the
\* net of original size - new size over the files compressed with success,
\* as "increased" with the absolute value when the net is negative and as
\* "saved" otherwise.
C2_FinalStatusIsNet ==
    [][\A r \in Threads :
         (worker[r].pc = "finish" /\ worker'[r].pc = "idle" /\ window_open) =>
            Last(events').status =
               C2_ExpectedStatus(Len(worker[r].files),
                                 NetSaved(worker[r].results))]_vars

\* ---- C3

\* Failures compress_image returns before it reaches fs::write.
BeforeWrite == {"open", "guess", "no_format", "decode", "unsupported", "encode"}

C3_Step(r) == worker[r].pc = "compress" /\ worker'[r].pc = "record"

\* C3: a call of compress_image that fails at the open, the format
\* detection, the decoding, the format dispatch or the encoding leaves every
\* file as it was; a file changes only in a call that got past the encoding
\* of a decodable JPEG or PNG.
C3_FailureLeavesFile ==
    [][\A r \in Threads : C3_Step(r) =>
         LET path == worker[r].files[worker[r].index + 1]
             res == worker'[r].result
         IN  /\ (~res.ok /\ res.reason \in BeforeWrite) => fs' = fs
             /\ fs' # fs =>
                   /\ res.ok \/ res.reason = "write"
                   /\ fs[path].valid /\ fs[path].fmt \in {"Jpeg", "Png"}
                   /\ \A p \in FilePaths \ {path} : fs'[p] = fs[p]]_vars

\* C3 witness: compress_image has just returned the unsupported-format
\* error for a file with a supported extension.
C3_Witness ==
    \E r \in Threads :
        /\ worker[r].pc = "record"
        /\ worker[r].result.reason = "unsupported"
        /\ fs[worker[r].files[worker[r].index + 1]] = Content("Gif", TRUE, 2048)

\* ---- C4

\* The folders of the tree that are missing or not directories.
BadRoots == {"gone", "shot.png"}

C4_Invariant ==
    /\ \A r \in Threads :
          LET w == worker[r] IN
          /\ w.pc = "failed" =>
                /\ w.folder \in BadRoots
                /\ w.error = (IF w.folder = "gone" THEN "not_exists"
                              ELSE "not_a_folder")
                /\ w.files = << >>
                /\ \A i \in 1..Len(events) : events[i].run # r
          /\ (w.pc \notin {"idle", "process_folder"} /\ w.folder \in BadRoots)
                => w.pc = "failed"
    /\ \A i \in 1..Len(events) :
          events[i].kind = "failure" =>
             /\ Len(events) = 1
             /\ events[i].status.kind = "failed"
             /\ events[i].status.path \in BadRoots
    /\ status_text.kind = "failed" =>
          /\ log_text = <<status_text>>
          /\ ~busy
          /\ total_files = 0 /\ processed_files = 0 /\ progress = Zero

C4_NoFileTouched ==
    (\E r \in Threads : worker[r].pc # "idle" /\ worker[r].folder \in BadRoots)
        => fs' = fs

\* C4: a run on a root that is missing or not a directory fails, and only
\* such a run fails; it changes no file, posts no total or progress, and posts
\* one closure whose message becomes the status and the only line of the log.
C4_RootErrorAborts == [](C4_Invariant) /\ [][C4_NoFileTouched]_vars

\* C4 witness: the failure of a run on a regular file has been shown.
C4_Witness ==
    /\ window_open /\ ~busy
    /\ status_text = Text("failed", "shot.png", "not_a_folder", 0, 0, 0)
    /\ fs = InitialContent

\* ---- C5

C5_Invariant ==
    \A r \in Threads :
        LET w == worker[r] IN
        /\ w.pc = "finish" => w.index = Len(w.files)
        /\ w.pc \in {"compress", "record"} => w.index < Len(w.files)
        /\ w.pc # "idle" => Len(w.results) = w.index

C5_FailedFile(r) ==
    LET w == worker[r]
        v == worker'[r]
        path == w.files[w.index + 1]
    IN  (w.pc = "record" /\ ~w.result.ok /\ v # w) =>
           /\ v.log_builder = w.log_builder \o
                 <<Text("fail", path, w.result.reason, 0, 0, 0), NL>>
           /\ v.total_saved = w.total_saved
           /\ v.index = w.index + 1
           /\ v.files = w.files
           /\ v.pc = (IF w.index + 1 < Len(w.files) THEN "compress"
                      ELSE "finish")
           /\ window_open => Last(events').processed = w.index + 1

\* C5: a file on which compress_image failed adds one failure line naming
\* it to the log, leaves total_saved as it was, counts as processed, and the
\* loop goes on to the next file; the loop ends only after the last file.
C5_FileFailureNotFatal ==
    [](C5_Invariant) /\ [][\A r \in Threads : C5_FailedFile(r)]_vars

\* C5 witness: the second file failed after the first saved 400,000 bytes,
\* and the third is about to be compressed.
C5_Witness ==
    \E r \in Threads :
        LET w == worker[r] IN
        /\ w.pc = "compress" /\ w.index = 2
        /\ w.results[1].ok /\ ~w.results[2].ok
        /\ w.total_saved = 400000

\* ---- C6

\* C6: a scan that finds no image posts total 0 and then only the closure
\* that clears busy; compress_image is not called, no per-file or final
\* closure is posted, and once the closures have run busy is false.
C6_NoImages ==
    /\ \A r \in Threads :
          LET w == worker[r] IN
          /\ w.pc \in {"compress", "record", "finish"} => Len(w.files) > 0
          /\ w.pc = "no_files" =>
                w.files = << >> /\ w.index = 0 /\ w.results = << >>
    /\ \A i \in 1..Len(events) :
          LET c == events[i] IN
          /\ c.kind \in {"file", "final"} => c.total > 0
          /\ (c.kind = "total" /\ c.total = 0) =>
                /\ c.status.kind = "none_found"
                /\ \/ i = Len(events) /\ worker[c.run].pc = "no_files"
                   \/ /\ i + 1 = Len(events)
                      /\ events[i + 1].kind = "release"
                      /\ events[i + 1].run = c.run
                      /\ worker[c.run].pc = "idle"
          /\ c.kind = "release" =>
                /\ i = Len(events)
                /\ IF i > 1
                   THEN events[i - 1].kind = "total" /\ events[i - 1].total = 0
                   ELSE total_files = 0 /\ processed_files = 0 /\ busy
    /\ (/\ window_open
        /\ status_text.kind = "none_found"
        /\ events = << >>
        /\ \A r \in Threads : worker[r].pc = "idle")
          => ~busy /\ total_files = 0 /\ processed_files = 0

\* C6 witness: a run on a folder without images has ended.
C6_Witness ==
    /\ window_open /\ ~busy
    /\ status_text.kind = "none_found"
    /\ log_text = EmptyString
    /\ events = << >>
    /\ \A r \in Threads : worker[r].pc = "idle"

\* ---- C7

\* The regular files of the tree whose extension is jpg, jpeg or png in any
\* letter case (read off the tree by hand).
ImageFiles ==
    {"photos/a.JPG", "photos/raw/b.png", "photos/raw/x/c.Jpeg", "shot.png"}

RECURSIVE IsUnder(_, _)
IsUnder(path, dir) ==
    LET parent == EntryOf(path).parent IN
    parent # "" /\ (parent = dir \/ IsUnder(parent, dir))

Range(seq) == {seq[i] : i \in 1..Len(seq)}

\* The directories a log names in a traversal warning.
FailedDirs(log) ==
    {log[i].path : i \in {j \in 1..Len(log) : log[j].kind = "walk_error"}}

Scanned(w) == w.pc \in {"report_total", "no_files", "compress", "record", "finish"}

\* C7 (as claimed): the file list holds exactly the image files at any
\* depth under the root.
C7_ListIsAllImages ==
    \A r \in Threads :
        Scanned(worker[r]) =>
           /\ Range(worker[r].files) =
                 {p \in ImageFiles : IsUnder(p, worker[r].folder)}
           /\ Cardinality(Range(worker[r].files)) = Len(worker[r].files)

\* C7 (amended): the file list holds exactly the image files under the root
\* that do not lie under a directory whose traversal failed (each such
\* failure is a warning line of the log); every result line of the log is
\* about a file of the list, and no other file is ever rewritten.
C7_ListIsReachableImages ==
    /\ \A r \in Threads :
          LET w == worker[r] IN
          Scanned(w) =>
             /\ Range(w.files) =
                   {p \in ImageFiles :
                       /\ IsUnder(p, w.folder)
                       /\ \A d \in FailedDirs(w.log_builder) :
                             d # w.folder /\ ~IsUnder(p, d)}
             /\ Cardinality(Range(w.files)) = Len(w.files)
             /\ \A i \in 1..Len(w.log_builder) :
                   w.log_builder[i].kind \in {"ok", "fail"} =>
                      w.log_builder[i].path \in Range(w.files)
    /\ \A p \in FilePaths :
          fs[p] # InitialContent[p] => p \in ImageFiles \ {"shot.png"}

\* C7 witness: a subdirectory could not be listed and the list holds the
\* one image outside it, which has been compressed.
C7_Witness ==
    \E r \in Threads :
        LET w == worker[r] IN
        /\ w.pc = "finish"
        /\ w.folder = "photos"
        /\ w.files = <<"photos/a.JPG">>
        /\ FailedDirs(w.log_builder) = {"photos/raw"}
        /\ w.results[1].ok

\* ---- C8

\* Number of per-file lines in a log.
FileLines(log) ==
    Cardinality({i \in 1..Len(log) : log[i].kind \in {"ok", "fail"}})

C8_Invariant ==
    /\ 0 <= processed_files /\ processed_files <= total_files
    /\ FracLeq(Zero, progress) /\ FracLeq(progress, One)
    /\ \A r \in Threads :
          LET w == worker[r] IN
          w.pc \in {"process_folder", "failed", "scan", "report_total", "no_files"}
             => w.index = 0 /\ w.results = << >>
    /\ \A i \in 1..Len(events) :
          LET c == events[i] IN
          /\ c.kind = "total" => i = 1 /\ c.processed = 0 /\ c.progress = Zero
          /\ c.kind = "file" =>
                /\ 1 <= c.processed /\ c.processed <= c.total
                /\ c.progress = Fraction(c.processed, c.total)
                /\ FileLines(c.log) = c.processed
                /\ IF i = 1
                   THEN processed_files = c.processed - 1 /\ total_files = c.total
                   ELSE /\ events[i - 1].kind \in {"total", "file"}
                        /\ events[i - 1].processed = c.processed - 1
                        /\ events[i - 1].total = c.total
          /\ c.kind = "final" =>
                /\ i = Len(events)
                /\ FileLines(c.log) = c.total
                /\ IF i = 1
                   THEN /\ processed_files = c.total /\ total_files = c.total
                        /\ progress = One
                   ELSE /\ events[i - 1].kind = "file"
                        /\ events[i - 1].processed = c.total
                        /\ events[i - 1].total = c.total

C8_Step ==
    /\ (busy /\ busy' /\ window_open') =>
          /\ processed_files' >= processed_files
          /\ FracLeq(progress, progress')
    /\ (processed_files' # processed_files /\ processed_files' # 0) =>
          /\ processed_files' = processed_files + 1
          /\ progress' = Fraction(processed_files', total_files')
          /\ FileLines(log_text') = processed_files'
          /\ FileLines(log_text) = processed_files
    /\ (busy /\ ~busy' /\ window_open'
           /\ status_text'.kind \in {"done_saved", "done_increased"}) =>
          /\ total_files' > 0
          /\ processed_files' = total_files'
          /\ progress' = One /\ progress = One

\* C8: the total is posted before any file is compressed; the closures of
\* the files follow in order, the k-th with processed = k, progress =
\* k/total and k file lines in its log; in the UI 0 <= processed <= total
\* always, processed and progress never decrease during a run, and the
\* final closure finds processed = total and progress = 1.
C8_ProgressExact == [](C8_Invariant) /\ [][C8_Step]_vars

\* C8 witness: the final status of a run over three files has been shown.
C8_Witness ==
    /\ window_open /\ ~busy
    /\ status_text.kind = "done_saved"
    /\ processed_files = 3 /\ total_files = 3
    /\ progress = One
    /\ FileLines(log_text) = 3

\* ---- C9

C9_Invariant ==
    /\ \A i \in 1..Len(events) :
          events[i].kind \in Releasing =>
             i = Len(events) /\ worker[events[i].run].pc = "idle"
    /\ (window_open /\ busy) => Cardinality({r \in Threads : Active(r)}) = 1

\* C9: a run posts its busy-clearing closure once, as the last closure it
\* posts; busy is never true with no thread alive and no such closure
\* queued; and, the event loop and the thread being scheduled, busy becomes
\* false again (at the latest when the window is closed).
C9_BusyCleared == [](C9_Invariant) /\ (busy ~> ~busy)

\* C9 witness: the run is over, its final closure is queued and busy is
\* still true.
C9_Witness ==
    /\ window_open /\ busy
    /\ events # << >> /\ Last(events).kind = "final"
    /\ \A r \in Threads : worker[r].pc = "idle"

\* ---- C10

C10_Invariant ==
    /\ (window_open /\ ~busy) => events = << >>
    /\ \A i \in 1..Len(events) : events[i].run = last

C10_Step ==
    <<log_text, processed_files, total_files, progress>>' #
    <<log_text, processed_files, total_files, progress>> =>
        \/ ~busy /\ busy'
        \/ ~window_open'
        \/ busy /\ IsApplyStep /\ Head(events).run = last

\* C10: when busy is false no closure is queued, so none of an earlier run
\* is pending when start_compress accepts a run; every queued closure was
\* posted by the run started last, and log, counters and progress change
\* only when start_compress accepts a run or a closure of that run is run.
C10_NoStaleUpdate == [](C10_Invariant) /\ [][C10_Step]_vars

\* C10 witness: a second run, started after a first, has had the closure of
\* its first file run.
C10_Witness ==
    /\ window_open /\ busy
    /\ last = 2
    /\ processed_files = 1
    /\ fs # InitialContent

====
